---- MODULE Spec2Model ----
(***************************************************************************)
(* Model of the walrus-docs Python examples: the blob identifier codec     *)
(* num_to_blob_id of examples/python/utils.py and the control flow of      *)
(* examples/python/hello_walrus_jsonapi.py.                                *)
(*                                                                         *)
(* A Python int is unbounded.  It is kept the way CPython keeps it, as a   *)
(* sequence of 15-bit digits, least significant first, here in two's       *)
(* complement: ext is the bit that repeats for ever above the last digit   *)
(* (0: non-negative, 1: negative), so that the value is                    *)
(*    SUM digits[i+1] * 2^(15*i)  -  ext * 2^(15*Len(digits)).             *)
(* Text (str, and bytes holding ASCII) is a TLA+ string; a bytes object    *)
(* holding binary data is a sequence of 0..255.                            *)
(***************************************************************************)
EXTENDS Integers, Sequences, FiniteSets, TLC

(***************************************************************************)
(* Python int                                                              *)
(***************************************************************************)
DigitBits == 15

DigitBase == 32768

RECURSIVE Pow2(_)
Pow2(k) == IF k = 0 THEN 1 ELSE 2 * Pow2(k - 1)

\* digit i (0 = least significant) of the Python int n, sign-extended
Digit(n, i) == IF i < Len(n.digits) THEN n.digits[i + 1] ELSE n.ext * (DigitBase - 1)

\* bit j (0 = least significant) of the Python int n
Bit(n, j) == (Digit(n, j \div DigitBits) \div Pow2(j % DigitBits)) % 2

\* digits * m + c on a non-negative digit string (one step of decimal parsing)
RECURSIVE MulAdd(_, _, _, _)
MulAdd(digits, i, m, c) ==
    IF i > Len(digits) THEN (IF c = 0 THEN << >> ELSE <<c>>)
    ELSE LET t == digits[i] * m + c
         IN  <<t % DigitBase>> \o MulAdd(digits, i + 1, m, t \div DigitBase)

\* the value of one decimal digit character
DigitVal(ch) == CHOOSE d \in 0..9 : SubSeq("0123456789", d + 1, d + 1) = ch

\* the native value of the decimal digits s[i..j], at most four of them
RECURSIVE ChunkVal(_, _, _)
ChunkVal(s, i, j) ==
    IF j < i THEN 0 ELSE 10 * ChunkVal(s, i, j - 1) + DigitVal(SubSeq(s, j, j))

\* digits + 1, dropping the carry out of the top
RECURSIVE Inc(_, _)
Inc(digits, i) ==
    IF i > Len(digits) THEN << >>
    ELSE IF digits[i] < DigitBase - 1
         THEN <<digits[i] + 1>> \o SubSeq(digits, i + 1, Len(digits))
         ELSE <<0>> \o Inc(digits, i + 1)

\* -n for a non-negative n: invert every bit and add one
PyNeg(n) ==
    IF \A i \in 1..Len(n.digits) : n.digits[i] = 0 THEN n
    ELSE [digits |-> Inc([i \in 1..Len(n.digits) |-> DigitBase - 1 - n.digits[i]], 1),
          ext    |-> 1]

\* int literal / int(str): an optional '-' and decimal digits, by Horner's
\* rule, four decimal digits at a time
RECURSIVE ParseDigits(_, _, _)
ParseDigits(s, i, acc) ==
    LET j == IF i + 3 <= Len(s) THEN i + 3 ELSE Len(s)
    IN  IF Len(acc) >= 0 /\ i > Len(s) THEN acc
        ELSE ParseDigits(s, j + 1,
                         MulAdd(acc, 1, (IF j - i = 3 THEN 10000 ELSE IF j - i = 2 THEN 1000
                                         ELSE IF j - i = 1 THEN 100 ELSE 10),
                                ChunkVal(s, i, j)))

PyInt(s) ==
    IF Len(s) > 0 /\ SubSeq(s, 1, 1) = "-"
    THEN PyNeg([digits |-> ParseDigits(s, 2, << >>), ext |-> 0])
    ELSE [digits |-> ParseDigits(s, 1, << >>), ext |-> 0]

\* int(text): ValueError unless the text is an optional '-' and decimal digits
int(text) ==
    LET first == IF Len(text) > 0 /\ SubSeq(text, 1, 1) = "-" THEN 2 ELSE 1
    IN  IF /\ first <= Len(text)
           /\ \A j \in first..Len(text) :
                 \E d \in 1..10 : SubSeq("0123456789", d, d) = SubSeq(text, j, j)
        THEN [exc |-> "", value |-> PyInt(text)]
        ELSE [exc |-> "ValueError", value |-> PyInt("0")]

\* n & m for a small non-negative native mask m; the result is native
RECURSIVE BitAndFrom(_, _, _)
BitAndFrom(n, m, j) ==
    IF Pow2(j) > m THEN 0
    ELSE Bit(n, j) * ((m \div Pow2(j)) % 2) * Pow2(j) + BitAndFrom(n, m, j + 1)

BitAnd(n, m) == BitAndFrom(n, m, 0)

\* RShift without the bits that come down from the digit above
RShift_NoCarry(n, k) ==
    [digits |-> [i \in 1..Len(n.digits) |-> n.digits[i] \div Pow2(k % DigitBits)],
     ext    |-> n.ext]

\* n >> k: arithmetic shift (floor division by 2^k), the sign keeps repeating.
\* Whole digits are dropped first, then every digit takes the low bits of
\* the digit above it.
RShift(n, k) ==
    LET wordshift == k \div DigitBits
        loshift   == k % DigitBits
        newsize   == IF Len(n.digits) > wordshift THEN Len(n.digits) - wordshift ELSE 0
    IN  [digits |-> [i \in 1..newsize |->
                        Digit(n, i - 1 + wordshift) \div Pow2(loshift)
                        + (Digit(n, i + wordshift) % Pow2(loshift)) * Pow2(DigitBits - loshift)],
         ext    |-> n.ext]

\* n == 0
IsZero(n) == n.ext = 0 /\ \A i \in 1..Len(n.digits) : n.digits[i] = 0

\* a == b by value (the two digit strings may differ in length)
PyEq(a, b) ==
    /\ a.ext = b.ext
    /\ \A i \in 0..(IF Len(a.digits) > Len(b.digits) THEN Len(a.digits) ELSE Len(b.digits)) :
          Digit(a, i) = Digit(b, i)

(***************************************************************************)
(* bytes, base64 and str                                                   *)
(***************************************************************************)
\* bytes(list): every element must be in range(256)
bytes(list) ==
    IF \A j \in 1..Len(list) : list[j] \in 0..255
    THEN [exc |-> "", value |-> list]
    ELSE [exc |-> "ValueError", value |-> << >>]

\* the ASCII code of the k-th character of the standard base64 alphabet
B64Code(k) ==
    IF k < 26 THEN 65 + k
    ELSE IF k < 52 THEN 97 + (k - 26)
    ELSE IF k < 62 THEN 48 + (k - 52)
    ELSE IF k = 62 THEN 43 ELSE 47

PadCode == 61

\* base64.b64encode: three bytes give four characters; a final group of one
\* or two bytes gives two or three characters and '=' up to four
RECURSIVE b64encode(_, _)
b64encode(bs, i) ==
    LET left == Len(bs) - i + 1
        b1 == bs[i]
        b2 == IF left >= 2 THEN bs[i + 1] ELSE 0
        b3 == IF left >= 3 THEN bs[i + 2] ELSE 0
        c1 == B64Code(b1 \div 4)
        c2 == B64Code((b1 % 4) * 16 + b2 \div 16)
        c3 == B64Code((b2 % 16) * 4 + b3 \div 64)
        c4 == B64Code(b3 % 64)
    IN  IF left <= 0 THEN << >>
        ELSE IF left = 1 THEN <<c1, c2, PadCode, PadCode>>
        ELSE IF left = 2 THEN <<c1, c2, c3, PadCode>>
        ELSE <<c1, c2, c3, c4>> \o b64encode(bs, i + 3)

\* urlsafe_b64encode with the standard alphabet left in place
urlsafe_b64encode_Standard(bs) == b64encode(bs, 1)

\* base64.urlsafe_b64encode: b64encode, then '+' becomes '-' and '/' becomes '_'
urlsafe_b64encode(bs) ==
    LET std == b64encode(bs, 1)
    IN  [j \in 1..Len(std) |->
            IF std[j] = 43 THEN 45 ELSE IF std[j] = 47 THEN 95 ELSE std[j]]

\* the printable ASCII characters by code: 35 to 91, 93 to 95 and 97 to 126
\* (base64 text never holds a double quote, 34, a backslash, 92, or a
\* backquote, 96)
Ascii35to91 == "#$%&'()*+,-./0123456789:;<=>?@ABCDEFGHIJKLMNOPQRSTUVWXYZ["

Ascii93to95 == "]^_"

Ascii97to126 == "abcdefghijklmnopqrstuvwxyz{|}~"

chr(code) ==
    IF code \in 35..91 THEN SubSeq(Ascii35to91, code - 34, code - 34)
    ELSE IF code \in 93..95 THEN SubSeq(Ascii93to95, code - 92, code - 92)
    ELSE IF code \in 97..126 THEN SubSeq(Ascii97to126, code - 96, code - 96)
    ELSE IF code = 32 THEN " " ELSE IF code = 33 THEN "!" ELSE "?"

\* bytes.decode("ascii")
RECURSIVE decode_ascii(_, _)
decode_ascii(codes, i) ==
    IF i > Len(codes) THEN "" ELSE chr(codes[i]) \o decode_ascii(codes, i + 1)

\* ord(ch), for a printable character
ord(ch) == CHOOSE code \in 32..126 : chr(code) = ch

\* the place of an ASCII code in the standard base64 alphabet, or -1
B64Index(code) ==
    IF \E k \in 0..63 : B64Code(k) = code
    THEN CHOOSE k \in 0..63 : B64Code(k) = code
    ELSE -1

\* base64.b64decode of padded ASCII codes: four characters give three bytes,
\* a final group ending in '=' or '==' gives two bytes or one
RECURSIVE b64decode(_, _)
b64decode(codes, i) ==
    LET k1 == B64Index(codes[i])
        k2 == B64Index(codes[i + 1])
        k3 == B64Index(codes[i + 2])
        k4 == B64Index(codes[i + 3])
        b1 == k1 * 4 + k2 \div 16
        b2 == (k2 % 16) * 16 + k3 \div 4
        b3 == (k3 % 4) * 64 + k4
    IN  IF i > Len(codes) THEN << >>
        ELSE IF codes[i + 2] = PadCode THEN <<b1>>
        ELSE IF codes[i + 3] = PadCode THEN <<b1, b2>>
        ELSE <<b1, b2, b3>> \o b64decode(codes, i + 4)

\* the ASCII codes of a text
StrCodes(text) == [j \in 1..Len(text) |-> ord(SubSeq(text, j, j))]

\* str.strip(ch): drop the leading and the trailing run of ch
RECURSIVE lstrip(_, _)
lstrip(s, ch) ==
    IF Len(s) > 0 /\ SubSeq(s, 1, 1) = ch THEN lstrip(SubSeq(s, 2, Len(s)), ch) ELSE s

RECURSIVE rstrip(_, _)
rstrip(s, ch) ==
    IF Len(s) > 0 /\ SubSeq(s, Len(s), Len(s)) = ch
    THEN rstrip(SubSeq(s, 1, Len(s) - 1), ch) ELSE s

\* strip that strips nothing
strip_Nothing(s, ch) == s

strip(s, ch) == lstrip(rstrip(s, ch), ch)

(***************************************************************************)
(* utils.num_to_blob_id                                                    *)
(***************************************************************************)
NumBytes == 32

\* the loop body with the shift before the extraction
LoopBody_ShiftFirst(st) ==
    [extracted_bytes |-> Append(st.extracted_bytes, BitAnd(RShift(st.blob_id_num, 8), 255)),
     blob_id_num     |-> RShift(st.blob_id_num, 8)]

\* the loop body building the list most significant byte last to first
LoopBody_BigEndian(st) ==
    [extracted_bytes |-> <<BitAnd(st.blob_id_num, 255)>> \o st.extracted_bytes,
     blob_id_num     |-> RShift(st.blob_id_num, 8)]

\* one pass of the loop body: take the low byte, shift it out
LoopBody(st) ==
    [extracted_bytes |-> Append(st.extracted_bytes, BitAnd(st.blob_id_num, 255)),
     blob_id_num     |-> RShift(st.blob_id_num, 8)]

RECURSIVE LoopFrom(_, _)
LoopFrom(st, i) == IF i >= NumBytes THEN st ELSE LoopFrom(LoopBody(st), i + 1)

\* the assertion compiled away
AssertHolds_Skipped(blob_id_num) == TRUE

\* assert blob_id_num == 0
AssertHolds(blob_id_num) == IsZero(blob_id_num)

\* blob_id_bytes = bytes(extracted_bytes); encoded = urlsafe_b64encode(blob_id_bytes)
Encoded(extracted_bytes) ==
    LET blob_id_bytes == bytes(extracted_bytes)
    IN  IF blob_id_bytes.exc # "" THEN [exc |-> blob_id_bytes.exc, value |-> << >>]
        ELSE [exc |-> "", value |-> urlsafe_b64encode(blob_id_bytes.value)]

\* the return value with the padding left on
Returned_Padded(encoded) == decode_ascii(encoded, 1)

\* return encoded.decode("ascii").strip("=")
Returned(encoded) == strip(decode_ascii(encoded, 1), "=")

\* the whole call: the result is the text, or the exception that left it
num_to_blob_id(blob_id_num) ==
    LET st      == LoopFrom([extracted_bytes |-> << >>, blob_id_num |-> blob_id_num], 0)
        encoded == Encoded(st.extracted_bytes)
    IN  IF ~AssertHolds(st.blob_id_num) THEN [exc |-> "AssertionError", value |-> ""]
        ELSE IF encoded.exc # "" THEN [exc |-> encoded.exc, value |-> ""]
        ELSE [exc |-> "", value |-> Returned(encoded.value)]

(***************************************************************************)
(* Inputs of the codec                                                     *)
(***************************************************************************)
\* how many powers of two below 2^256, and how many from 2^256 up, are tried
ExpBelow == 2

ExpAbove == 2

\* 2^k as a Python int
PowerOfTwo(k) ==
    [digits |-> [i \in 1..(k \div DigitBits + 1) |->
                    IF i = k \div DigitBits + 1 THEN Pow2(k % DigitBits) ELSE 0],
     ext    |-> 0]

TestVector == "46269954626831698189342469164469112511517843773769981308926739591706762839432"

TestVectorText == "iIWkkUTzPZx-d1E_A7LqUynnYFD-ztk39_tP8MLdS2Y"

\* 2^256 - 1 and 2^256
MaxU256 == "115792089237316195423570985008687907853269984665640564039457584007913129639935"

TwoTo256 == "115792089237316195423570985008687907853269984665640564039457584007913129639936"

Literals == {"0", "1", "255", "256", "65535", TestVector, MaxU256, TwoTo256, "-1", "-256"}

Inputs ==
    {PyInt(s) : s \in Literals}
    \cup {PowerOfTwo(k) : k \in (8 * NumBytes - ExpBelow)..(8 * NumBytes + ExpAbove - 1)}
    \cup {PyNeg(PowerOfTwo(k)) : k \in (8 * NumBytes - ExpBelow)..(8 * NumBytes + ExpAbove - 1)}

\* the inputs of the two interleaved callers
PureInputs == {PyInt(s) : s \in {"0", TestVector, TwoTo256}}

(***************************************************************************)
(* State                                                                   *)
(***************************************************************************)
Callers == {"main", "other"}

VARIABLES
    FULL_NODE_URL,           \* utils.py module constants
    PATH_TO_WALRUS,
    PATH_TO_WALRUS_CONFIG,
    frames,                  \* per caller: the activation of num_to_blob_id
    spc,                     \* hello_walrus_jsonapi: the part about to run
    tmp_bound,               \* the name tmp is bound
    tmp_exists,              \* the temporary file is on disk
    random_data,             \* the uploaded bytes
    blob_id,                 \* the blob ID the store step returned
    sui_object_id,
    exc,                     \* the exception on its way out of the try block
    out,                     \* the lines printed
    log                      \* the external calls issued, with their replies

globals == <<FULL_NODE_URL, PATH_TO_WALRUS, PATH_TO_WALRUS_CONFIG>>

script == <<spc, tmp_bound, tmp_exists, random_data, blob_id, sui_object_id, exc, out, log>>

vars == <<globals, frames, script>>

NoResult == [exc |-> "", value |-> ""]

\* a caller about to call num_to_blob_id(arg); "off": a caller that never runs
Frame(pc, arg) ==
    [pc |-> pc, arg |-> arg, blob_id_num |-> arg, i |-> 0,
     extracted_bytes |-> << >>, encoded |-> << >>, result |-> NoResult]

InitGlobals ==
    /\ FULL_NODE_URL = "https://fullnode.testnet.sui.io:443"
    /\ PATH_TO_WALRUS = "../CONFIG/bin/walrus"
    /\ PATH_TO_WALRUS_CONFIG = "../CONFIG/config_dir/client_config.yaml"

\* the script before its first statement; "off": the script is not run
InitScript(pc) ==
    /\ spc = pc
    /\ tmp_bound = FALSE
    /\ tmp_exists = FALSE
    /\ random_data = << >>
    /\ blob_id = ""
    /\ sui_object_id = ""
    /\ exc = ""
    /\ out = << >>
    /\ log = << >>

\* one caller
Init ==
    /\ InitGlobals
    /\ InitScript("off")
    /\ \E v \in Inputs :
          frames = [c \in Callers |-> IF c = "main" THEN Frame("idle", v) ELSE Frame("off", v)]

\* two callers, interleaved
InitPure ==
    /\ InitGlobals
    /\ InitScript("off")
    /\ \E v \in PureInputs, w \in PureInputs :
          frames = [c \in Callers |-> IF c = "main" THEN Frame("idle", v) ELSE Frame("idle", w)]

(***************************************************************************)
(* num_to_blob_id, statement by statement                                  *)
(***************************************************************************)
\* the call with one list shared by all calls instead of a fresh one
Call_SharedList(c) ==
    /\ frames[c].pc = "idle"
    /\ frames' = [frames EXCEPT ![c].pc = "loop",
                                ![c].blob_id_num = frames[c].arg,
                                ![c].i = 0,
                                ![c].extracted_bytes =
                                    frames[CHOOSE d \in Callers : d # c].extracted_bytes]
    /\ UNCHANGED <<globals, script>>

\* def num_to_blob_id(blob_id_num): extracted_bytes = []
Call(c) ==
    /\ frames[c].pc = "idle"
    /\ frames' = [frames EXCEPT ![c].pc = "loop",
                                ![c].blob_id_num = frames[c].arg,
                                ![c].i = 0,
                                ![c].extracted_bytes = << >>]
    /\ UNCHANGED <<globals, script>>

\* for i in range(32): one pass
Iterate(c) ==
    /\ frames[c].pc = "loop"
    /\ frames[c].i < NumBytes
    /\ LET st == LoopBody([extracted_bytes |-> frames[c].extracted_bytes,
                           blob_id_num     |-> frames[c].blob_id_num])
       IN  frames' = [frames EXCEPT ![c].i = frames[c].i + 1,
                                    ![c].extracted_bytes = st.extracted_bytes,
                                    ![c].blob_id_num = st.blob_id_num]
    /\ UNCHANGED <<globals, script>>

\* the loop is over: assert blob_id_num == 0
AssertZero(c) ==
    /\ frames[c].pc = "loop"
    /\ frames[c].i >= NumBytes
    /\ frames' = IF AssertHolds(frames[c].blob_id_num)
                 THEN [frames EXCEPT ![c].pc = "encode"]
                 ELSE [frames EXCEPT ![c].pc = "raised",
                                     ![c].result = [exc |-> "AssertionError", value |-> ""]]
    /\ UNCHANGED <<globals, script>>

\* blob_id_bytes = bytes(extracted_bytes); encoded = base64.urlsafe_b64encode(blob_id_bytes)
Encode(c) ==
    /\ frames[c].pc = "encode"
    /\ LET encoded == Encoded(frames[c].extracted_bytes)
       IN  frames' = IF encoded.exc # ""
                     THEN [frames EXCEPT ![c].pc = "raised",
                                         ![c].result = [exc |-> encoded.exc, value |-> ""]]
                     ELSE [frames EXCEPT ![c].pc = "return",
                                         ![c].encoded = encoded.value]
    /\ UNCHANGED <<globals, script>>

\* return encoded.decode("ascii").strip("=")
Return(c) ==
    /\ frames[c].pc = "return"
    /\ frames' = [frames EXCEPT ![c].pc = "done",
                                ![c].result = [exc |-> "", value |-> Returned(frames[c].encoded)]]
    /\ UNCHANGED <<globals, script>>

Next ==
    \E c \in Callers :
        \/ Call(c)
        \/ Iterate(c)
        \/ AssertZero(c)
        \/ Encode(c)
        \/ Return(c)

Spec == Init /\ [][Next]_vars

SpecPure == InitPure /\ [][Next]_vars

(***************************************************************************)
(* hello_walrus_jsonapi.py                                                 *)
(***************************************************************************)
\* the length of random_data (1024 * 1024 in the script) and the byte values
\* it is drawn from
DataLen == 2

DataBytes == {0, 255}

DataValues == [1..DataLen -> DataBytes]

\* the blob IDs and the object IDs the walrus client may report
BlobIds == {"AAAAAAAAAAAAAAAAAAAAAAAAAAAAAAAAAAAAAAAAAAA", TestVectorText}

SuiObjectIds == {"0x1"}

\* the numeric blob_id fields the full node may report
OnchainValues == {"0", TestVector, TwoTo256}

NotJson == [json |-> FALSE, dict |-> [error |-> "not JSON"]]

\* what the store command may write to stdout
StoreReplies ==
    {NotJson}
    \cup {[json |-> TRUE, dict |-> [error |-> "store failed"]]}
    \cup {[json |-> TRUE, dict |-> [newlyCreated |-> [blobObject |-> [blobId |-> b, id |-> o]]]] :
             b \in BlobIds, o \in SuiObjectIds}
    \cup {[json |-> TRUE, dict |-> [alreadyCertified |-> [blobObject |-> [blobId |-> b, id |-> o]]]] :
             b \in BlobIds, o \in SuiObjectIds}

\* what the read command may write to stdout: the blob comes base64 encoded
ReadReplies(requested) ==
    {NotJson}
    \cup {[json |-> TRUE,
           dict |-> [blobId |-> requested, blob |-> decode_ascii(b64encode(d, 1), 1)]] :
             d \in DataValues}

\* what the full node may answer
NodeReplies ==
    {[reachable |-> FALSE, dict |-> [error |-> "unreachable"]]}
    \cup {[reachable |-> TRUE, dict |-> [error |-> "object not found"]]}
    \cup {[reachable |-> TRUE,
           dict |-> [result |-> [data |-> [content |-> [fields |-> [blob_id |-> v]]]]]] :
             v \in OnchainValues}

\* Part 1 after subprocess.run: the assert, the parse, the prints
StoreResult_NoAssert(returncode, reply) ==
    LET failed(e) == [exc |-> e, blob_id |-> "", sui_object_id |-> "", prints |-> << >>]
        found(blobObject) ==
            [exc |-> "", blob_id |-> blobObject.blobId, sui_object_id |-> blobObject.id,
             prints |-> <<"Upload Blob ID: " \o blobObject.blobId,
                          "Certificate in Object ID: " \o blobObject.id>>]
    IN  IF ~reply.json THEN failed("JSONDecodeError")
        ELSE IF "newlyCreated" \in DOMAIN reply.dict
             THEN found(reply.dict.newlyCreated.blobObject)
        ELSE IF "alreadyCertified" \in DOMAIN reply.dict
             THEN found(reply.dict.alreadyCertified.blobObject)
        ELSE failed("ValueError")

StoreResult(returncode, reply) ==
    LET failed(e) == [exc |-> e, blob_id |-> "", sui_object_id |-> "", prints |-> << >>]
        found(blobObject) ==
            [exc |-> "", blob_id |-> blobObject.blobId, sui_object_id |-> blobObject.id,
             prints |-> <<"Upload Blob ID: " \o blobObject.blobId,
                          "Certificate in Object ID: " \o blobObject.id>>]
    IN  IF returncode # 0 THEN failed("AssertionError")
        ELSE IF ~reply.json THEN failed("JSONDecodeError")
        ELSE IF "newlyCreated" \in DOMAIN reply.dict
             THEN found(reply.dict.newlyCreated.blobObject)
        ELSE IF "alreadyCertified" \in DOMAIN reply.dict
             THEN found(reply.dict.alreadyCertified.blobObject)
        ELSE failed("ValueError")

\* Part 2 after subprocess.run: the assert, the parse, the comparison
ReadResult(returncode, reply, uploaded) ==
    IF returncode # 0 THEN [exc |-> "AssertionError", prints |-> << >>]
    ELSE IF ~reply.json THEN [exc |-> "JSONDecodeError", prints |-> << >>]
    ELSE LET downloaded_data == b64decode(StrCodes(reply.dict.blob), 1)
         IN  IF downloaded_data # uploaded THEN [exc |-> "AssertionError", prints |-> << >>]
             ELSE [exc |-> "", prints |-> <<"Download Blob ID: " \o reply.dict.blobId>>]

\* Part 3 after requests.post: the object content, the conversion, the verdict
CheckResult(reply, uploaded_blob_id) ==
    IF ~reply.reachable THEN [exc |-> "ConnectionError", prints |-> << >>]
    ELSE IF "result" \notin DOMAIN reply.dict THEN [exc |-> "KeyError", prints |-> << >>]
    ELSE LET object_content     == reply.dict.result.data.content
             blob_id_downloaded == int(object_content.fields.blob_id)
             converted          == num_to_blob_id(blob_id_downloaded.value)
         IN  IF blob_id_downloaded.exc # ""
             THEN [exc |-> blob_id_downloaded.exc, prints |-> <<"Object content:">>]
             ELSE IF converted.exc # ""
             THEN [exc |-> converted.exc, prints |-> <<"Object content:">>]
             ELSE IF converted.value = uploaded_blob_id
             THEN [exc |-> "", prints |-> <<"Object content:", "Blob ID matches certificate!">>]
             ELSE [exc |-> "", prints |-> <<"Object content:", "Blob ID does not match">>]

InitJsonApi ==
    /\ InitGlobals
    /\ InitScript("start")
    /\ frames = [c \in Callers |-> Frame("off", PyInt("0"))]

\* random_data = os.urandom(...); tmp = NamedTemporaryFile(delete=False);
\* tmp.write(random_data); tmp.close()
Start ==
    /\ spc = "start"
    /\ \E data \in DataValues, outcome \in {"written", "not created", "not written"} :
          /\ random_data' = data
          /\ tmp_bound' = (outcome # "not created")
          /\ tmp_exists' = (outcome # "not created")
          /\ exc' = IF outcome = "written" THEN "" ELSE "OSError"
          /\ spc' = IF outcome = "written" THEN "part1" ELSE "finally"
    /\ UNCHANGED <<globals, frames, blob_id, sui_object_id, out, log>>

\* Part 1. Upload the file to the Walrus service
Part1 ==
    /\ spc = "part1"
    /\ \E returncode \in {0, 1}, reply \in StoreReplies :
          LET r == StoreResult(returncode, reply)
          IN  /\ log' = Append(log, [op |-> "store", target |-> PATH_TO_WALRUS,
                                     config |-> PATH_TO_WALRUS_CONFIG,
                                     returncode |-> returncode, reply |-> reply])
              /\ blob_id' = r.blob_id
              /\ sui_object_id' = r.sui_object_id
              /\ out' = out \o r.prints
              /\ exc' = r.exc
              /\ spc' = IF r.exc = "" THEN "part2" ELSE "finally"
    /\ UNCHANGED <<globals, frames, tmp_bound, tmp_exists, random_data>>

\* Part 2. Download the file from the Walrus service
Part2 ==
    /\ spc = "part2"
    /\ \E returncode \in {0, 1}, reply \in ReadReplies(blob_id) :
          LET r == ReadResult(returncode, reply, random_data)
          IN  /\ log' = Append(log, [op |-> "read", target |-> PATH_TO_WALRUS,
                                     config |-> PATH_TO_WALRUS_CONFIG,
                                     returncode |-> returncode, reply |-> reply])
              /\ out' = out \o r.prints
              /\ exc' = r.exc
              /\ spc' = IF r.exc = "" THEN "part3" ELSE "finally"
    /\ UNCHANGED <<globals, frames, tmp_bound, tmp_exists, random_data, blob_id, sui_object_id>>

\* Part 3. Check the availability of the blob
Part3 ==
    /\ spc = "part3"
    /\ \E reply \in NodeReplies :
          LET r == CheckResult(reply, blob_id)
          IN  /\ log' = Append(log, [op |-> "sui_getObject", target |-> FULL_NODE_URL,
                                     config |-> sui_object_id,
                                     returncode |-> 0, reply |-> reply])
              /\ out' = out \o r.prints
              /\ exc' = r.exc
              /\ spc' = "finally"
    /\ UNCHANGED <<globals, frames, tmp_bound, tmp_exists, random_data, blob_id, sui_object_id>>

\* the clean-up skipped when the try block raised
Finally_OnlyOnSuccess ==
    /\ spc = "finally"
    /\ tmp_exists' = IF exc = "" THEN FALSE ELSE tmp_exists
    /\ exc' = IF tmp_bound THEN exc ELSE "NameError"
    /\ spc' = "exit"
    /\ UNCHANGED <<globals, frames, tmp_bound, random_data, blob_id, sui_object_id, out, log>>

\* finally: os.unlink(tmp.name), then the script ends, with exc if one is pending
Finally ==
    /\ spc = "finally"
    /\ tmp_exists' = IF tmp_bound THEN FALSE ELSE tmp_exists
    /\ exc' = IF tmp_bound THEN exc ELSE "NameError"
    /\ spc' = "exit"
    /\ UNCHANGED <<globals, frames, tmp_bound, random_data, blob_id, sui_object_id, out, log>>

NextJsonApi ==
    \/ Start
    \/ Part1
    \/ Part2
    \/ Part3
    \/ Finally

SpecJsonApi == InitJsonApi /\ [][NextJsonApi]_vars

(***************************************************************************)
(* The inverse direction, as the specification describes it                *)
(***************************************************************************)
\* the text with '=' appended up to a multiple of four characters
RECURSIVE RestorePadding(_)
RestorePadding(text) == IF Len(text) % 4 = 0 THEN text ELSE RestorePadding(text \o "=")

\* the ASCII codes of a text, '-' and '_' mapped back to '+' and '/'
UrlSafeCodes(text) ==
    [j \in 1..Len(text) |->
        LET code == StrCodes(text)[j]
        IN  IF code = 45 THEN 43 ELSE IF code = 95 THEN 47 ELSE code]

\* the Python int whose little-endian bytes are bs (byte 1 least significant)
RECURSIVE FromBytesLE(_, _)
FromBytesLE(bs, i) ==
    IF i > Len(bs) THEN << >>
    ELSE LET upper == FromBytesLE(bs, i + 1)
         IN  IF Len(upper) >= 0 THEN MulAdd(upper, 1, 256, bs[i]) ELSE << >>

\* the text is well formed: characters of the alphabet, one to three of them
\* in the last group
Decodable(text) ==
    /\ Len(text) % 4 # 1
    /\ \A j \in 1..Len(text) : B64Index(UrlSafeCodes(text)[j]) >= 0

decode(text) ==
    [digits |-> FromBytesLE(b64decode(UrlSafeCodes(RestorePadding(text)), 1), 1), ext |-> 0]

\* 0 <= v < 2^256
InRange(v) ==
    /\ v.ext = 0
    /\ \A j \in (8 * NumBytes)..(DigitBits * Len(v.digits)) : Bit(v, j) = 0

\* floor(v / 256^i) mod 256
ByteOf(v, i) ==
    Bit(v, 8 * i) + 2 * Bit(v, 8 * i + 1) + 4 * Bit(v, 8 * i + 2) + 8 * Bit(v, 8 * i + 3)
    + 16 * Bit(v, 8 * i + 4) + 32 * Bit(v, 8 * i + 5) + 64 * Bit(v, 8 * i + 6)
    + 128 * Bit(v, 8 * i + 7)

UrlSafeAlphabet == "ABCDEFGHIJKLMNOPQRSTUVWXYZabcdefghijklmnopqrstuvwxyz0123456789-_"

Terminal(c) == frames[c].pc \in {"done", "raised"}

(***************************************************************************)
(* Properties of the codec                                                 *)
(***************************************************************************)
\* C1: a call with 0 <= v < 2^256 returns a text, and decoding that text
\* (restore the padding, URL-safe base64-decode, read little-endian) gives v
C1_RoundTrip ==
    \A c \in Callers :
        (Terminal(c) /\ InRange(frames[c].arg)) =>
            /\ frames[c].pc = "done"
            /\ Decodable(frames[c].result.value)
            /\ PyEq(decode(frames[c].result.value), frames[c].arg)

C1_Witness ==
    /\ frames["main"].pc = "done"
    /\ PyEq(frames["main"].arg, PyInt(MaxU256))

\* C2: the text returned for 0 <= v < 2^256 has exactly 43 characters, also
\* for a small v whose high-order bytes are zero: 32 bytes are encoded to 44
\* characters, of which the last and only the last is '=', and it is stripped
C2_Length43 ==
    \A c \in Callers :
        (Terminal(c) /\ InRange(frames[c].arg)) =>
            /\ frames[c].pc = "done"
            /\ Len(frames[c].extracted_bytes) = NumBytes
            /\ Len(frames[c].encoded) = 44
            /\ \A j \in 1..44 : (frames[c].encoded[j] = PadCode) <=> (j = 44)
            /\ Len(frames[c].result.value) = 43

C2_Witness ==
    /\ frames["main"].pc = "done"
    /\ PyEq(frames["main"].arg, PyInt("1"))

\* C3: every character of the returned text is in the URL-safe base64
\* alphabet, and none is '='
C3_Alphabet ==
    \A c \in Callers :
        (frames[c].pc = "done" /\ InRange(frames[c].arg)) =>
            \A j \in 1..Len(frames[c].result.value) :
                LET ch == SubSeq(frames[c].result.value, j, j)
                IN  /\ ch # "="
                    /\ \E k \in 1..Len(UrlSafeAlphabet) : SubSeq(UrlSafeAlphabet, k, k) = ch

C3_Witness ==
    /\ frames["main"].pc = "done"
    /\ PyEq(frames["main"].arg, PyInt(TestVector))
    /\ \E j \in 1..43 : SubSeq(frames["main"].result.value, j, j) = "-"
    /\ \E j \in 1..43 : SubSeq(frames["main"].result.value, j, j) = "_"

\* C4: a call with v < 0 or v >= 2^256 never reaches the encoding: after the
\* 32 extractions the residual is nonzero, the assertion fails, no text is
\* returned, and the failed call stays failed
C4_OutOfRangeInv ==
    \A c \in Callers :
        (frames[c].pc # "off" /\ ~InRange(frames[c].arg)) =>
            /\ frames[c].pc \in {"idle", "loop", "raised"}
            /\ frames[c].result.value = ""
            /\ frames[c].pc = "raised" =>
                  /\ frames[c].result.exc = "AssertionError"
                  /\ frames[c].i = NumBytes
                  /\ Len(frames[c].extracted_bytes) = NumBytes
                  /\ ~IsZero(frames[c].blob_id_num)

C4_OutOfRange ==
    /\ []C4_OutOfRangeInv
    /\ [][\A c \in Callers : frames[c].pc = "raised" => frames'[c] = frames[c]]_vars

C4_Witness ==
    /\ frames["main"].pc = "raised"
    /\ PyEq(frames["main"].arg, PyInt(TwoTo256))

\* C5: the self-test vector: the call with the pinned number returns the
\* pinned text
C5_TestVector ==
    \A c \in Callers :
        (Terminal(c) /\ PyEq(frames[c].arg, PyInt(TestVector))) =>
            /\ frames[c].pc = "done"
            /\ frames[c].result.value = TestVectorText

C5_Witness ==
    /\ frames["main"].pc = "done"
    /\ PyEq(frames["main"].arg, PyInt(TestVector))

ZeroBytes == [j \in 1..NumBytes |-> 0]

FortyThreeAs == "AAAAAAAAAAAAAAAAAAAAAAAAAAAAAAAAAAAAAAAAAAA"

\* C6 as stated: encoding zero gives the stripped URL-safe base64 text of 32
\* zero bytes, and that text differs from 43 'A' characters
C6_ZeroIsNotAllA ==
    \A c \in Callers :
        (Terminal(c) /\ IsZero(frames[c].arg)) =>
            /\ frames[c].pc = "done"
            /\ frames[c].result.value = strip(decode_ascii(urlsafe_b64encode(ZeroBytes), 1), "=")
            /\ frames[c].result.value # FortyThreeAs

\* C6 amended: encoding zero gives the stripped URL-safe base64 text of 32
\* zero bytes, which is the text of 43 'A' characters
C6_ZeroIsAllA ==
    \A c \in Callers :
        (Terminal(c) /\ IsZero(frames[c].arg)) =>
            /\ frames[c].pc = "done"
            /\ frames[c].extracted_bytes = ZeroBytes
            /\ frames[c].result.value = strip(decode_ascii(urlsafe_b64encode(ZeroBytes), 1), "=")
            /\ frames[c].result.value = FortyThreeAs

C6_Witness ==
    /\ frames["main"].pc = "done"
    /\ IsZero(frames["main"].arg)

\* C7: the result of a call depends on its input only: two finished calls
\* with the same input have the same result, whatever the interleaving, the
\* locals and the result of each call are those of the call run alone, and a
\* step of one call changes neither the module constants, nor the caller's
\* value, nor the other call
C7_SameResult ==
    /\ \A c \in Callers :
          frames[c].pc = "loop" =>
              /\ Len(frames[c].extracted_bytes) = frames[c].i
              /\ \A k \in 1..Len(frames[c].extracted_bytes) :
                    frames[c].extracted_bytes[k] = ByteOf(frames[c].arg, k - 1)
              /\ PyEq(frames[c].blob_id_num, RShift(frames[c].arg, 8 * frames[c].i))
    /\ \A c \in Callers, d \in Callers :
          (Terminal(c) /\ Terminal(d) /\ PyEq(frames[c].arg, frames[d].arg)) =>
              /\ frames[c].result = frames[d].result
              /\ frames[c].pc = frames[d].pc
              /\ frames[c].result = num_to_blob_id(frames[c].arg)

C7_Pure ==
    /\ []C7_SameResult
    /\ [][/\ globals' = globals
          /\ \A c \in Callers : frames'[c].arg = frames[c].arg
          /\ \A c \in Callers, d \in Callers :
                (c # d /\ frames'[c] # frames[c]) => frames'[d] = frames[d]]_vars

C7_Witness ==
    /\ frames["main"].pc = "done"
    /\ frames["other"].pc = "done"
    /\ frames["main"].arg = frames["other"].arg
    /\ frames["main"].result.value = TestVectorText

\* C8: for 0 <= v < 2^256 the i-th extracted byte is floor(v / 256^i) mod 256
\* (little-endian), and exactly 32 bytes are encoded
C8_LittleEndian ==
    \A c \in Callers :
        (frames[c].pc # "off" /\ InRange(frames[c].arg)) =>
            /\ \A k \in 1..Len(frames[c].extracted_bytes) :
                  frames[c].extracted_bytes[k] = ByteOf(frames[c].arg, k - 1)
            /\ frames[c].pc \in {"encode", "return", "done"} =>
                  Len(frames[c].extracted_bytes) = NumBytes

C8_Witness ==
    /\ frames["main"].pc = "encode"
    /\ PyEq(frames["main"].arg, PyInt(TestVector))
    /\ frames["main"].extracted_bytes[1] = 136
    /\ frames["main"].extracted_bytes[32] = 102

(***************************************************************************)
(* Properties of hello_walrus_jsonapi.py                                   *)
(***************************************************************************)
Printed(line) == \E j \in 1..Len(out) : out[j] = line

\* the blob ID a store reply carries
ReportedBlobId(dict) ==
    IF "newlyCreated" \in DOMAIN dict THEN dict.newlyCreated.blobObject.blobId
    ELSE dict.alreadyCertified.blobObject.blobId

\* C9: the external calls are issued in the order store, read, sui_getObject,
\* at most once each; the read only after a store that returned 0 and
\* reported newlyCreated or alreadyCertified (any other store outcome ends
\* the script with an error); the sui_getObject only after a read that
\* returned 0 and delivered the uploaded bytes; and the match is printed only
\* when the converted on-chain blob_id equals the blob ID the store reported
C9_Gated ==
    /\ Len(log) <= 3
    /\ \A j \in 1..Len(log) : log[j].op = <<"store", "read", "sui_getObject">>[j]
    /\ Len(log) >= 2 =>
          /\ log[1].returncode = 0
          /\ log[1].reply.json
          /\ \/ "newlyCreated" \in DOMAIN log[1].reply.dict
             \/ "alreadyCertified" \in DOMAIN log[1].reply.dict
    /\ (Len(log) = 1 /\ spc = "exit") => exc # ""
    /\ Len(log) >= 3 =>
          /\ log[2].returncode = 0
          /\ log[2].reply.json
          /\ log[2].reply.dict.blob = decode_ascii(b64encode(random_data, 1), 1)
    /\ Printed("Blob ID matches certificate!") =>
          /\ Len(log) = 3
          /\ log[3].reply.reachable
          /\ "result" \in DOMAIN log[3].reply.dict
          /\ LET onchain == PyInt(log[3].reply.dict.result.data.content.fields.blob_id)
             IN  /\ InRange(onchain)
                 /\ PyEq(decode(ReportedBlobId(log[1].reply.dict)), onchain)

C9_Witness ==
    /\ spc = "exit"
    /\ Len(log) = 3
    /\ Printed("Blob ID matches certificate!")
    /\ blob_id = TestVectorText

\* C10: however the script ends, the temporary file is gone
C10_TempFileDeleted == spc = "exit" => ~tmp_exists

C10_Witness ==
    /\ spc = "exit"
    /\ tmp_bound
    /\ exc = "AssertionError"
    /\ Len(log) = 2
    /\ ~tmp_exists

====
